---- MODULE Spec2Model ----
(***************************************************************************)
(* State-machine model of src/app/app.tsx: the App screen of the offline   *)
(* video editor.  The component state (inputUri, busy, outputs), the       *)
(* asynchronous tasks started by the handlers (onPick, withRun through     *)
(* doSplit / doCrop / doBlur / doEnhance) and the collaborators they       *)
(* suspend on (document picker, file system, FFmpegKit) are modelled; each *)
(* await of the source is a task position (pc).                            *)
(*                                                                         *)
(* Strings are sequences of tokens: a token is a TLA+ string standing for  *)
(* a literal chunk of text.  Engine logs are run-length encoded: a         *)
(* sequence of chunks [c |-> character, n |-> repetitions].                *)
(*                                                                         *)
(* A state update is rendered before the next user event is handled, so    *)
(* the props of the buttons (disabled, the memoised handlers and the       *)
(* inputUri they close over) are read from the current state.              *)
(***************************************************************************)
EXTENDS Integers, Sequences, FiniteSets, TLC

\* ---------------------------------------------------------------- bounds
MaxRuns == 2        \* run tasks that may be started in one behaviour
MaxPicks == 2       \* pickVideo calls that may be pending at one time
MaxLen == 2         \* characters of an argument given to a builder called directly
MaxEnsureCalls == 2 \* direct calls of ensureOutDir

\* ------------------------------------------------------- program constants
LogLimit == 2000    \* r.logs.slice(0, 2000)

\* --------------------------------------------------------------- values
Null == <<>>                    \* inputUri: null (falsy, like the empty string)
NullLabel == "null"             \* busy: null
Uris == {<<"file:///a.mp4">>, <<"content://b">>}
Presets == {"doSplit", "doCrop", "doBlur", "doEnhance"}

\* What new Date() reads (milliseconds after the epoch second): two instants,
\* read in any order, the wall clock being free to be set back.
ClockReadings == {0, 1}

\* ReturnCode values the engine reports: SUCCESS and an error.
RetCodes == {0, 1}

\* What session.getAllLogsAsString?.() resolves to: undefined (method absent
\* or no value), the empty string, or a log text.
Undefined == [defined |-> FALSE, val |-> <<>>]
Defined(s) == [defined |-> TRUE, val |-> s]
LogTexts == {<<>>,
             <<[c |-> "e", n |-> LogLimit]>>,
             <<[c |-> "e", n |-> LogLimit], [c |-> "x", n |-> 1]>>}
LogResults == {Undefined} \cup {Defined(s) : s \in LogTexts}

\* A value a promise rejects with: an Error (its code, its message), a string
\* (its text) or a plain object.  code and message are "" where the value has
\* none: undefined and "" are both falsy.
ErrorOf(code, message) == [kind |-> "Error", code |-> code, message |-> message, value |-> ""]
StringOf(text) == [kind |-> "string", code |-> "", message |-> "", value |-> text]
ObjectOf(code) == [kind |-> "object", code |-> code, message |-> "", value |-> ""]
NoErr == [kind |-> "none", code |-> "", message |-> "", value |-> ""]

\* Values the picker rejects with: the cancel, which isCancel recognises, an
\* Error with a message and a value with none.
PickErrors == {ErrorOf("DOCUMENT_PICKER_CANCELED", "User canceled document picker"),
               ErrorOf("UNKNOWN", "picker unavailable"),
               StringOf("boom")}
\* Values the file system rejects with: an Error with a message, and each
\* kind of value with none.
FsErrors == {ErrorOf("", "EACCES"), ErrorOf("", ""), StringOf("boom"), ObjectOf("X")}

\* Alert.alert(title, msg): msg is token text followed by log text.
AlertOf(title, msg, log) == [title |-> title, msg |-> msg, log |-> log]
NoAlert == AlertOf(<<>>, <<>>, <<>>)

VARIABLES
  inputUri,   \* useState<string | null>(null)
  busy,       \* useState<string | null>(null)
  outputs,    \* useState<string[]>([])
  runs,       \* the withRun tasks, by order of start
  pick,       \* the onPick tasks that await pickVideo: their number
  dirExists,  \* file system: does outDir exist
  now,        \* the last value new Date() returned
  alert,      \* the Alert.alert call of the latest step (NoAlert: none)
  lastOp,     \* the latest step: which operation, on what
  h           \* the direct calls of the pure functions and of ensureOutDir

vars == <<inputUri, busy, outputs, runs, pick, dirExists, now, alert, lastOp, h>>

\* ------------------------------------------------------------ pure parts

\* String(e): an Error with no message prints its name, a string is itself,
\* a plain object prints as "[object Object]".
ToStr(e) ==
  CASE e.kind = "Error" -> IF e.message = "" THEN "Error" ELSE "Error: " \o e.message
    [] e.kind = "string" -> e.value
    [] e.kind = "object" -> "[object Object]"

\* String(e?.message || e)
ErrText(e) == IF e.message # "" THEN <<e.message>> ELSE <<ToStr(e)>>

\* DocumentPicker.isCancel(e)
isCancel(e) == e.code = "DOCUMENT_PICKER_CANCELED"

\* ReturnCode.isSuccess(returnCode)
isSuccess(rc) == rc = 0

\* (await session.getAllLogsAsString?.()) || ""
LogsOrEmpty(l) == IF l.defined THEN l.val ELSE <<>>

\* Length of a run-length encoded text.
RECURSIVE TextLen(_)
TextLen(s) == IF s = <<>> THEN 0 ELSE Head(s).n + TextLen(Tail(s))

\* Mutant of slice: the text is not cut.
sliceWhole(s, k) == s

\* s.slice(0, k): the first min(k, length) characters.
RECURSIVE slice(_, _)
slice(s, k) ==
  IF k <= 0 \/ s = <<>> THEN <<>>
  ELSE IF Head(s).n = 0 THEN slice(Tail(s), k)
  ELSE IF Head(s).n <= k THEN <<Head(s)>> \o slice(Tail(s), k - Head(s).n)
  ELSE <<[c |-> Head(s).c, n |-> k]>>

\* s.replace(/[:.]/g, "-")
replaceColonDot(s) == [i \in 1..Len(s) |-> IF s[i] \in {":", "."} THEN "-" ELSE s[i]]

\* Date.toISOString() of the clock value t (milliseconds after the epoch second).
Pad3(t) == IF t < 10 THEN <<"0", "0", ToString(t)>>
           ELSE IF t < 100 THEN <<"0", ToString(t)>>
           ELSE <<ToString(t)>>
toISOString(t) == <<"1970-01-01T00", ":", "00", ":", "00", ".">> \o Pad3(t) \o <<"Z">>

nowStamp(t) == replaceColonDot(toISOString(t))

outDir == <<"DocumentDirectoryPath", "/outputs">>

\* pattern.replace("%03d", "001.."): the first occurrence only.
RECURSIVE replaceFirst(_, _, _)
replaceFirst(s, old, new) ==
  IF s = <<>> THEN <<>>
  ELSE IF Head(s) = old THEN <<new>> \o Tail(s)
  ELSE <<Head(s)>> \o replaceFirst(Tail(s), old, new)

Q == "\""

buildSplitCommand(uri, outPattern) ==
  <<"-i ", Q>> \o uri \o
  <<Q, " -map 0 -c:v libx264 -preset veryfast -crf 23 -c:a aac -segment_time 60 -f segment -reset_timestamps 1 ", Q>>
  \o outPattern \o <<Q>>

buildCropSquareCommand(uri, outputPath) ==
  <<"-i ", Q>> \o uri \o
  <<Q, " -vf ", "crop='min(iw,ih)':'min(iw,ih)',scale=1080:1080",
    " -c:v libx264 -preset veryfast -crf 20 -c:a copy ", Q>>
  \o outputPath \o <<Q>>

buildBlurCommand(uri, outputPath) ==
  <<"-i ", Q>> \o uri \o
  <<Q, " -vf ", "boxblur=10:1",
    " -c:v libx264 -preset veryfast -crf 22 -c:a copy ", Q>>
  \o outputPath \o <<Q>>

buildEnhanceCommand(uri, outputPath) ==
  <<"-i ", Q>> \o uri \o
  <<Q, " -vf ", "unsharp=5:5:1.0:5:5:0.0,eq=contrast=1.08:brightness=0.02:saturation=1.15",
    " -c:v libx264 -preset veryfast -crf 20 -c:a copy ", Q>>
  \o outputPath \o <<Q>>

\* The label each handler passes to withRun.
Label(p) == CASE p = "doSplit" -> "Split (1-minute)"
              [] p = "doCrop" -> "Crop (Square)"
              [] p = "doBlur" -> "Blur"
              [] p = "doEnhance" -> "Enhance"

\* The file-name prefix of each handler's output.
Prefix(p) == CASE p = "doSplit" -> "/split_"
               [] p = "doCrop" -> "/crop_"
               [] p = "doBlur" -> "/blur_"
               [] p = "doEnhance" -> "/enhance_"

\* The path (or pattern) the handler's buildCmd computes at clock value t.
OutPath(p, t) ==
  IF p = "doSplit"
  THEN outDir \o <<Prefix(p)>> \o nowStamp(t) \o <<"_", "%03d", ".mp4">>
  ELSE outDir \o <<Prefix(p)>> \o nowStamp(t) \o <<".mp4">>

\* Mutant of OutRecord: the record is stamped by a later reading of the clock.
OutRecordLateStamp(p, t) ==
  IF p = "doSplit" THEN replaceFirst(OutPath(p, t + 1), "%03d", "001..") ELSE OutPath(p, t + 1)

\* The record the handler's buildCmd prepends to outputs.
OutRecord(p, t) ==
  IF p = "doSplit" THEN replaceFirst(OutPath(p, t), "%03d", "001..") ELSE OutPath(p, t)

\* The command the handler's buildCmd returns.
BuildCmd(p, uri, t) ==
  CASE p = "doSplit" -> buildSplitCommand(uri, OutPath(p, t))
    [] p = "doCrop" -> buildCropSquareCommand(uri, OutPath(p, t))
    [] p = "doBlur" -> buildBlurCommand(uri, OutPath(p, t))
    [] p = "doEnhance" -> buildEnhanceCommand(uri, OutPath(p, t))

\* if (!exists) await RNFS.mkdir(outDir)
mkdirNeededAlways(exists) == TRUE
mkdirNeededNever(exists) == FALSE
mkdirNeeded(exists) == ~exists

\* ------------------------------------------------------------ the tasks

\* What lastOp records of a step: the operation, the task, its argument, and
\* the value a collaborator rejected with.
Op(op, id, arg, uri) == [op |-> op, id |-> id, arg |-> arg, uri |-> uri, err |-> NoErr]
OpErr(op, id, arg, e) == [op |-> op, id |-> id, arg |-> arg, uri |-> Null, err |-> e]

NoResult == [ok |-> FALSE, logs |-> <<>>]

\* A withRun task that was not started.
NoRun == [pc |-> "none", preset |-> "", label |-> NullLabel, uri |-> Null,
          rec |-> <<>>, cmd |-> <<>>, invoked |-> 0, rc |-> 0, r |-> NoResult]

\* A finished task keeps what it did to the program's state and to the engine;
\* its local variables are gone.
Finished(run, at) == [NoRun EXCEPT !.pc = at, !.rec = run.rec, !.invoked = run.invoked]

RunIds == 1..MaxRuns

\* Positions at which a withRun task has been started and has not returned.
ActivePcs == {"exists", "mkdir", "build", "submit", "engine", "retcode", "logs",
              "resolved", "pending"}
\* Positions at which executeAsync was called and runFFmpeg's promise is unsettled.
InFlightPcs == {"engine", "retcode", "logs", "pending"}

Active(i) == runs[i].pc \in ActivePcs
InFlight(i) == runs[i].pc \in InFlightPcs

\* No direct call was made.
NoCalls == [uri |-> <<>>, out |-> <<>>, fn |-> "none", cmd |-> <<>>, calls |-> <<>>]

Init ==
  /\ inputUri = Null
  /\ busy = NullLabel
  /\ outputs = <<>>
  /\ runs = [i \in RunIds |-> NoRun]
  /\ pick = 0
  /\ dirExists \in BOOLEAN
  /\ now = 0
  /\ alert = NoAlert
  /\ lastOp = Op("init", 0, "", Null)
  /\ h = NoCalls

\* ------------------------------------------------------------- rendering

\* Mutant of Disabled: the disabled prop forgets the busy label.
DisabledIgnoringBusy == inputUri = Null

\* disabled={!inputUri || !!busy} of the four preset buttons.
Disabled == inputUri = Null \/ busy # NullLabel

\* The next task slot, tasks being numbered by order of start.
NextRun(i) == runs[i].pc = "none" /\ \A k \in 1..(i - 1) : runs[k].pc # "none"

\* --------------------------------------------------------------- withRun

\* Mutant of withRun: the input check is missing.
withRunUnchecked(i, p) ==
  /\ busy' = Label(p)
  /\ runs' = [runs EXCEPT ![i] = [NoRun EXCEPT !.pc = "exists", !.preset = p,
                                              !.label = Label(p), !.uri = inputUri]]
  /\ alert' = NoAlert
  /\ lastOp' = Op("press", i, p, Null)

\* withRun(label, buildCmd) up to its first await: the input check, setBusy(label)
\* and the call of ensureOutDir, which calls RNFS.exists.
withRun(i, p) ==
  IF inputUri = Null
  THEN /\ alert' = AlertOf(<<"No video">>, <<"Please pick a video first.">>, <<>>)
       /\ lastOp' = Op("pressNoVideo", 0, "", Null)
       /\ UNCHANGED <<busy, runs>>
  ELSE /\ busy' = Label(p)
       /\ runs' = [runs EXCEPT ![i] = [NoRun EXCEPT !.pc = "exists", !.preset = p,
                                                   !.label = Label(p), !.uri = inputUri]]
       /\ alert' = NoAlert
       /\ lastOp' = Op("press", i, p, Null)

\* The user presses the button of preset p: a disabled TouchableOpacity does not
\* call onPress; an enabled one calls the handler, which calls withRun.
Press(p) ==
  /\ IF Disabled
     THEN /\ alert' = NoAlert
          /\ lastOp' = Op("pressDisabled", 0, "", Null)
          /\ UNCHANGED <<busy, runs>>
     ELSE \E i \in RunIds : NextRun(i) /\ withRun(i, p)
  /\ UNCHANGED <<h, inputUri, outputs, pick, dirExists, now>>

\* Mutant of Catch: the catch block forgets setBusy(null).
CatchKeepingBusy(i, e, op) ==
  /\ alert' = AlertOf(<<runs[i].label, " error">>, ErrText(e), <<>>)
  /\ runs' = [runs EXCEPT ![i] = Finished(runs[i], "threw")]
  /\ lastOp' = OpErr(op, i, "", e)
  /\ UNCHANGED <<h, inputUri, busy, outputs, pick, dirExists, now>>

\* The catch block of withRun: setBusy(null) and the error alert.
Catch(i, e, op) ==
  /\ busy' = NullLabel
  /\ alert' = AlertOf(<<runs[i].label, " error">>, ErrText(e), <<>>)
  /\ runs' = [runs EXCEPT ![i] = Finished(runs[i], "threw")]
  /\ lastOp' = OpErr(op, i, "", e)
  /\ UNCHANGED <<h, inputUri, outputs, pick, dirExists, now>>

\* A step of task i that only moves it to position pc.
Goto(i, pc, op) ==
  /\ runs' = [runs EXCEPT ![i].pc = pc]
  /\ alert' = NoAlert
  /\ lastOp' = Op(op, i, "", Null)
  /\ UNCHANGED <<h, inputUri, busy, outputs, pick, dirExists, now>>

\* ensureOutDir: RNFS.exists(outDir) resolves; if absent, RNFS.mkdir is called.
ExistsResolve(i) ==
  /\ runs[i].pc = "exists"
  /\ Goto(i, IF mkdirNeeded(dirExists) THEN "mkdir" ELSE "build", "existsResolve")

ExistsReject(i, e) ==
  /\ runs[i].pc = "exists"
  /\ Catch(i, e, "existsReject")

\* ensureOutDir: RNFS.mkdir(outDir) resolves, the directory is there.
MkdirResolve(i) ==
  /\ runs[i].pc = "mkdir"
  /\ dirExists' = TRUE
  /\ runs' = [runs EXCEPT ![i].pc = "build"]
  /\ alert' = NoAlert
  /\ lastOp' = Op("mkdirResolve", i, "", Null)
  /\ UNCHANGED <<h, inputUri, busy, outputs, pick, now>>

MkdirReject(i, e) ==
  /\ runs[i].pc = "mkdir"
  /\ Catch(i, e, "mkdirReject")

\* Mutant of Build: the record is put at the end of the list.
BuildAppendingLast(i, t) ==
  /\ runs[i].pc = "build"
  /\ now' = t
  /\ outputs' = outputs \o <<OutRecord(runs[i].preset, t)>>
  /\ runs' = [runs EXCEPT ![i].pc = "submit",
                          ![i].rec = OutRecord(runs[i].preset, t),
                          ![i].cmd = BuildCmd(runs[i].preset, runs[i].uri, t)]
  /\ alert' = NoAlert
  /\ lastOp' = Op("build", i, "", Null)
  /\ UNCHANGED <<h, inputUri, busy, pick, dirExists>>

\* Mutant of Build: the command is built from the input reference of the
\* latest render, not from the one the handler closed over.
BuildFromCurrentInput(i, t) ==
  /\ runs[i].pc = "build"
  /\ now' = t
  /\ outputs' = <<OutRecord(runs[i].preset, t)>> \o outputs
  /\ runs' = [runs EXCEPT ![i].pc = "submit",
                          ![i].rec = OutRecord(runs[i].preset, t),
                          ![i].cmd = BuildCmd(runs[i].preset, inputUri, t)]
  /\ alert' = NoAlert
  /\ lastOp' = Op("build", i, "", Null)
  /\ UNCHANGED <<h, inputUri, busy, pick, dirExists>>

\* Mutant of Build: the record is not prepended in the build step.
BuildWithoutAppend(i, t) ==
  /\ runs[i].pc = "build"
  /\ now' = t
  /\ runs' = [runs EXCEPT ![i].pc = "submit",
                          ![i].rec = OutRecord(runs[i].preset, t),
                          ![i].cmd = BuildCmd(runs[i].preset, runs[i].uri, t)]
  /\ alert' = NoAlert
  /\ lastOp' = Op("build", i, "", Null)
  /\ UNCHANGED <<h, inputUri, busy, outputs, pick, dirExists>>

\* buildCmd() of the handler: the clock is read (new Date(), the wall clock,
\* which may have been set back), the record is prepended to outputs and the
\* command is built from the inputUri the handler closed over.
Build(i, t) ==
  /\ runs[i].pc = "build"
  /\ now' = t
  /\ outputs' = <<OutRecord(runs[i].preset, t)>> \o outputs
  /\ runs' = [runs EXCEPT ![i].pc = "submit",
                          ![i].rec = OutRecord(runs[i].preset, t),
                          ![i].cmd = BuildCmd(runs[i].preset, runs[i].uri, t)]
  /\ alert' = NoAlert
  /\ lastOp' = Op("build", i, "", Null)
  /\ UNCHANGED <<h, inputUri, busy, pick, dirExists>>

\* runFFmpeg(cmd): FFmpegKit.executeAsync(cmd, callback) is called.
Submit(i) ==
  /\ runs[i].pc = "submit"
  /\ runs' = [runs EXCEPT ![i].pc = "engine", ![i].invoked = @ + 1]
  /\ alert' = NoAlert
  /\ lastOp' = Op("submit", i, "", Null)
  /\ UNCHANGED <<h, inputUri, busy, outputs, pick, dirExists, now>>

\* The engine ends the session and calls the callback, which asks for the
\* return code.
EngineCallback(i) ==
  /\ runs[i].pc = "engine"
  /\ Goto(i, "retcode", "engineCallback")

\* session.getReturnCode() resolves; the callback asks for the logs.
RetcodeResolve(i, rc) ==
  /\ runs[i].pc = "retcode"
  /\ runs' = [runs EXCEPT ![i].pc = "logs", ![i].rc = rc]
  /\ alert' = NoAlert
  /\ lastOp' = Op("retcodeResolve", i, "", Null)
  /\ UNCHANGED <<h, inputUri, busy, outputs, pick, dirExists, now>>

\* session.getReturnCode() rejects: the callback ends without calling resolve,
\* and runFFmpeg's promise stays pending.
RetcodeReject(i) ==
  /\ runs[i].pc = "retcode"
  /\ Goto(i, "pending", "retcodeReject")

\* session.getAllLogsAsString() resolves; the callback resolves the promise.
LogsResolve(i, l) ==
  /\ runs[i].pc = "logs"
  /\ runs' = [runs EXCEPT ![i].pc = "resolved",
                          ![i].r = [ok |-> isSuccess(runs[i].rc), logs |-> LogsOrEmpty(l)]]
  /\ alert' = NoAlert
  /\ lastOp' = Op("logsResolve", i, "", Null)
  /\ UNCHANGED <<h, inputUri, busy, outputs, pick, dirExists, now>>

\* session.getAllLogsAsString() rejects: as for the return code.
LogsReject(i) ==
  /\ runs[i].pc = "logs"
  /\ Goto(i, "pending", "logsReject")

\* Mutant of Complete: a failed run takes its record off the list.
CompleteDroppingFailed(i) ==
  /\ runs[i].pc = "resolved"
  /\ busy' = NullLabel
  /\ alert' = IF runs[i].r.ok
              THEN AlertOf(<<runs[i].label, " done">>, <<"Check the output paths below.">>, <<>>)
              ELSE AlertOf(<<runs[i].label, " failed">>, <<>>, slice(runs[i].r.logs, LogLimit))
  /\ outputs' = IF runs[i].r.ok THEN outputs ELSE Tail(outputs)
  /\ runs' = [runs EXCEPT ![i] = Finished(runs[i], "done")]
  /\ lastOp' = Op("complete", i, IF runs[i].r.ok THEN "ok" ELSE "failed", Null)
  /\ UNCHANGED <<h, inputUri, pick, dirExists, now>>

\* Mutant of Complete: a failed run submits its command again.
CompleteRetrying(i) ==
  /\ runs[i].pc = "resolved"
  /\ IF runs[i].r.ok
     THEN /\ busy' = NullLabel
          /\ alert' = AlertOf(<<runs[i].label, " done">>, <<"Check the output paths below.">>, <<>>)
          /\ runs' = [runs EXCEPT ![i] = Finished(runs[i], "done")]
          /\ lastOp' = Op("complete", i, "ok", Null)
     ELSE /\ busy' = busy
          /\ alert' = NoAlert
          /\ runs' = [runs EXCEPT ![i].pc = "submit"]
          /\ lastOp' = Op("retry", i, "", Null)
  /\ UNCHANGED <<h, inputUri, outputs, pick, dirExists, now>>

\* withRun after await runFFmpeg(cmd): setBusy(null) and the alert.
Complete(i) ==
  /\ runs[i].pc = "resolved"
  /\ busy' = NullLabel
  /\ alert' = IF runs[i].r.ok
              THEN AlertOf(<<runs[i].label, " done">>, <<"Check the output paths below.">>, <<>>)
              ELSE AlertOf(<<runs[i].label, " failed">>, <<>>, slice(runs[i].r.logs, LogLimit))
  /\ runs' = [runs EXCEPT ![i] = Finished(runs[i], "done")]
  /\ lastOp' = Op("complete", i, IF runs[i].r.ok THEN "ok" ELSE "failed", Null)
  /\ UNCHANGED <<h, inputUri, outputs, pick, dirExists, now>>

\* ---------------------------------------------------------------- onPick

\* The user presses the pick button (never disabled, whatever is pending):
\* onPick calls pickVideo, which calls DocumentPicker.pickSingle.
PickPress ==
  /\ pick < MaxPicks
  /\ pick' = pick + 1
  /\ alert' = NoAlert
  /\ lastOp' = Op("pickPress", 0, "", Null)
  /\ UNCHANGED <<h, inputUri, busy, outputs, runs, dirExists, now>>

\* Mutant of PickResolve: the picked uri is dropped while a run is Running.
PickResolveWhenIdle(uri) ==
  /\ pick > 0
  /\ inputUri' = IF busy = NullLabel THEN uri ELSE inputUri
  /\ alert' = AlertOf(<<"Video selected">>, uri, <<>>)
  /\ pick' = pick - 1
  /\ lastOp' = Op("pickResolve", 0, "", uri)
  /\ UNCHANGED <<h, busy, outputs, runs, dirExists, now>>

\* pickVideo resolves with the uri of the chosen file.
PickResolve(uri) ==
  /\ pick > 0
  /\ inputUri' = uri
  /\ alert' = AlertOf(<<"Video selected">>, uri, <<>>)
  /\ pick' = pick - 1
  /\ lastOp' = Op("pickResolve", 0, "", uri)
  /\ UNCHANGED <<h, busy, outputs, runs, dirExists, now>>

\* Mutant of PickReject: the cancel is shown like any other error.
PickRejectAlwaysShown(e) ==
  /\ pick > 0
  /\ alert' = AlertOf(<<"Pick failed">>, ErrText(e), <<>>)
  /\ pick' = pick - 1
  /\ lastOp' = OpErr("pickReject", 0, e.code, e)
  /\ UNCHANGED <<h, inputUri, busy, outputs, runs, dirExists, now>>

\* pickVideo rejects: a cancel is absorbed, anything else is shown.
PickReject(e) ==
  /\ pick > 0
  /\ alert' = IF ~isCancel(e) THEN AlertOf(<<"Pick failed">>, ErrText(e), <<>>) ELSE NoAlert
  /\ pick' = pick - 1
  /\ lastOp' = OpErr("pickReject", 0, e.code, e)
  /\ UNCHANGED <<h, inputUri, busy, outputs, runs, dirExists, now>>

\* ------------------------------------------------------------------ Next

Next ==
  \/ \E p \in Presets : Press(p)
  \/ \E i \in RunIds : ExistsResolve(i)
  \/ \E i \in RunIds, e \in FsErrors : ExistsReject(i, e)
  \/ \E i \in RunIds : MkdirResolve(i)
  \/ \E i \in RunIds, e \in FsErrors : MkdirReject(i, e)
  \/ \E i \in RunIds, t \in ClockReadings : Build(i, t)
  \/ \E i \in RunIds : Submit(i)
  \/ \E i \in RunIds : EngineCallback(i)
  \/ \E i \in RunIds, rc \in RetCodes : RetcodeResolve(i, rc)
  \/ \E i \in RunIds : RetcodeReject(i)
  \/ \E i \in RunIds, l \in LogResults : LogsResolve(i, l)
  \/ \E i \in RunIds : LogsReject(i)
  \/ \E i \in RunIds : Complete(i)
  \/ PickPress
  \/ \E uri \in Uris : PickResolve(uri)
  \/ \E e \in PickErrors : PickReject(e)

Spec == Init /\ [][Next]_vars

\* ---------------------------------------------------------- direct calls

\* The functions of the module called directly, as a unit test calls them: a
\* builder on arguments over an alphabet that holds the double quote,
\* ensureOutDir several times, a call being started after or before the
\* earlier ones settled, on a file system that may reject, and a handler of
\* the freshly constructed component (no input picked), not through its button.
Alphabet == {"a", Q}
Strs == UNION {[1..n -> Alphabet] : n \in 0..MaxLen}
Builders == {"buildSplitCommand", "buildCropSquareCommand", "buildBlurCommand",
             "buildEnhanceCommand"}

ApplyBuilder(fn, uri, out) ==
  CASE fn = "buildSplitCommand" -> buildSplitCommand(uri, out)
    [] fn = "buildCropSquareCommand" -> buildCropSquareCommand(uri, out)
    [] fn = "buildBlurCommand" -> buildBlurCommand(uri, out)
    [] fn = "buildEnhanceCommand" -> buildEnhanceCommand(uri, out)

PureInit ==
  /\ inputUri = Null
  /\ busy = NullLabel
  /\ outputs = <<>>
  /\ runs = [i \in RunIds |-> NoRun]
  /\ pick = 0
  /\ dirExists \in BOOLEAN
  /\ now = 0
  /\ alert = NoAlert
  /\ lastOp = Op("init", 0, "", Null)
  /\ \E u \in Strs, o \in Strs : h = [NoCalls EXCEPT !.uri = u, !.out = o]

\* build...Command(h.uri, h.out): the string is returned, no alert is raised
\* and no state is touched.
CallBuilder(fn) ==
  /\ h.fn = "none"
  /\ h' = [h EXCEPT !.fn = fn, !.cmd = ApplyBuilder(fn, h.uri, h.out)]
  /\ alert' = NoAlert
  /\ lastOp' = Op("callBuilder", 0, fn, Null)
  /\ UNCHANGED <<inputUri, busy, outputs, runs, pick, dirExists, now>>

\* Positions of a call of ensureOutDir: RNFS.exists awaited, RNFS.mkdir
\* awaited, and the two ways its promise settles.
Settled(c) == c.pc \in {"resolved", "rejected"}

\* ensureOutDir() is called: RNFS.exists(outDir) is called and awaited.  made
\* records whether the call called RNFS.mkdir, alone whether every earlier
\* call had settled when this one started.
CallEnsureOutDir ==
  /\ Len(h.calls) < MaxEnsureCalls
  /\ h' = [h EXCEPT !.calls =
             Append(@, [pc |-> "exists", made |-> FALSE,
                        alone |-> \A k \in 1..Len(h.calls) : Settled(h.calls[k])])]
  /\ lastOp' = Op("ensureCall", Len(h.calls) + 1, "", Null)
  /\ alert' = NoAlert
  /\ UNCHANGED <<inputUri, busy, outputs, runs, pick, dirExists, now>>

\* RNFS.exists resolves for call k: if (!exists) RNFS.mkdir(outDir) is called
\* and awaited, else the call returns outDir.
EnsureExistsResolve(k) ==
  /\ h.calls[k].pc = "exists"
  /\ h' = [h EXCEPT !.calls[k] =
             IF mkdirNeeded(dirExists)
             THEN [@ EXCEPT !.pc = "mkdir", !.made = TRUE]
             ELSE [@ EXCEPT !.pc = "resolved"]]
  /\ lastOp' = Op("ensureExistsResolve", k, "", Null)
  /\ alert' = NoAlert
  /\ UNCHANGED <<inputUri, busy, outputs, runs, pick, dirExists, now>>

\* RNFS.exists rejects for call k: the promise of the call rejects (with the
\* same value, which ensureOutDir does not look at).
EnsureExistsReject(k) ==
  /\ h.calls[k].pc = "exists"
  /\ h' = [h EXCEPT !.calls[k].pc = "rejected"]
  /\ lastOp' = Op("ensureExistsReject", k, "", Null)
  /\ alert' = NoAlert
  /\ UNCHANGED <<inputUri, busy, outputs, runs, pick, dirExists, now>>

\* RNFS.mkdir resolves for call k (the directory absent or, made by another
\* call meanwhile, present): the directory is there, the call returns outDir.
EnsureMkdirResolve(k) ==
  /\ h.calls[k].pc = "mkdir"
  /\ dirExists' = TRUE
  /\ h' = [h EXCEPT !.calls[k].pc = "resolved"]
  /\ lastOp' = Op("ensureMkdirResolve", k, "", Null)
  /\ alert' = NoAlert
  /\ UNCHANGED <<inputUri, busy, outputs, runs, pick, now>>

\* RNFS.mkdir rejects for call k: the promise of the call rejects likewise.
EnsureMkdirReject(k) ==
  /\ h.calls[k].pc = "mkdir"
  /\ h' = [h EXCEPT !.calls[k].pc = "rejected"]
  /\ lastOp' = Op("ensureMkdirReject", k, "", Null)
  /\ alert' = NoAlert
  /\ UNCHANGED <<inputUri, busy, outputs, runs, pick, dirExists, now>>

\* doSplit() / doCrop() / doBlur() / doEnhance() is called: the handler calls
\* withRun, which runs up to its return or its first await.
CallHandler(p) ==
  /\ \E i \in RunIds : NextRun(i) /\ withRun(i, p)
  /\ UNCHANGED <<h, inputUri, outputs, pick, dirExists, now>>

PureNext ==
  \/ \E fn \in Builders : CallBuilder(fn)
  \/ \E p \in Presets : CallHandler(p)
  \/ CallEnsureOutDir
  \/ \E k \in 1..Len(h.calls) : EnsureExistsResolve(k)
  \/ \E k \in 1..Len(h.calls) : EnsureExistsReject(k)
  \/ \E k \in 1..Len(h.calls) : EnsureMkdirResolve(k)
  \/ \E k \in 1..Len(h.calls) : EnsureMkdirReject(k)

PureSpec == PureInit /\ [][PureNext]_vars

\* ================================================================ claims

\* The step just taken was a press of a preset button.
PressOps == {"press", "pressDisabled", "pressNoVideo"}

\* The tasks that were started, and those whose command reached the engine.
Started == {i \in RunIds : runs[i].pc # "none"}
Built == {i \in RunIds : runs[i].rec # <<>>}

\* C1: a press of a preset button while a started run has not completed leaves
\* busy and every run task as they were (no new task, no engine call), and in
\* every reachable state at most one run is active and at most one engine
\* invocation is in flight.
C1_OneRunAtATime ==
  /\ [](Cardinality({i \in RunIds : Active(i)}) <= 1)
  /\ [](Cardinality({i \in RunIds : InFlight(i)}) <= 1)
  /\ [][(lastOp'.op \in PressOps /\ \E i \in RunIds : Active(i))
          => (busy' = busy /\ runs' = runs /\ outputs' = outputs)]_vars

\* C1 witness: a press was turned down while an engine invocation was in flight
\* (an input being picked, the press was turned down for the run alone).
C1_Witness ==
  /\ lastOp.op = "pressDisabled"
  /\ inputUri # Null
  /\ \E i \in RunIds : InFlight(i) /\ busy = runs[i].label

\* Positions at which a step of the task is outstanding: a collaborator owes
\* it a result, or a continuation of it is queued.
OwedPcs == {"exists", "mkdir", "build", "submit", "engine", "retcode", "logs", "resolved"}

\* C2: every run that enters Running returns the screen to Idle on every path,
\* an exception thrown while the engine result is obtained included, so once
\* no started run is owed a step the busy label is none; and the records that
\* were in the output list stay in it.
C2_ReturnsToIdle ==
  /\ []((\A i \in RunIds : runs[i].pc \notin OwedPcs) => busy = NullLabel)
  /\ [][\A k \in 1..Len(outputs) :
          outputs'[Len(outputs') - Len(outputs) + k] = outputs[k]]_vars

\* C3: the record of a run is appended in the step that completes the run with
\* success: the output list grows in no other step.
C3_AppendOnSuccess ==
  [][Len(outputs') > Len(outputs)
       => (lastOp'.op = "complete" /\ lastOp'.arg = "ok")]_vars

\* The built run that k - 1 built runs follow, runs being numbered by start.
KthLatestBuilt(k) ==
  CHOOSE i \in Built : Cardinality({j \in Built : j > i}) = k - 1

\* C4: the output list holds exactly the records of the runs that passed the
\* input check and reached their build step, latest first; a run has its
\* record in the list from its build step on, which precedes the submission
\* of its command, so the record is listed while the run is Running.
C4_AppendAtBuild ==
  /\ \A i \in RunIds :
       /\ Active(i) => runs[i].uri # Null
       /\ runs[i].pc \in {"none", "exists", "mkdir", "build", "threw"} => runs[i].rec = <<>>
       /\ runs[i].pc \in {"submit", "engine", "retcode", "logs", "resolved", "pending", "done"}
            => runs[i].rec # <<>>
       /\ runs[i].invoked > 0 => runs[i].rec # <<>>
  /\ Len(outputs) = Cardinality(Built)
  /\ \A k \in 1..Len(outputs) : outputs[k] = runs[KthLatestBuilt(k)].rec

\* C4 witness: the record of a run is in the list while its command is not
\* yet submitted and the run is Running.
C4_Witness ==
  \E i \in RunIds :
    /\ runs[i].pc = "submit" /\ runs[i].invoked = 0
    /\ busy = runs[i].label
    /\ outputs # <<>> /\ Head(outputs) = runs[i].rec

\* C5: the completion of a run whose return code is not success clears busy
\* and leaves the output list as it was, the record of that run at its head.
C5_FailureKeepsRecord ==
  [][(lastOp'.op = "complete" /\ ~isSuccess(runs[lastOp'.id].rc))
       => /\ busy' = NullLabel
          /\ outputs' = outputs
          /\ outputs' # <<>> /\ Head(outputs') = runs[lastOp'.id].rec
          /\ runs'[lastOp'.id].pc = "done"]_vars

\* C5 witness: a run has completed with failure, busy is none and the record
\* of the run is the head of the list.
C5_Witness ==
  /\ lastOp.op = "complete" /\ lastOp.arg = "failed"
  /\ busy = NullLabel
  /\ alert.title = <<Label("doBlur"), " failed">>
  /\ outputs # <<>> /\ Head(outputs) = runs[lastOp.id].rec

\* The engine invocations of the first n run tasks.
RECURSIVE Invocations(_)
Invocations(n) == IF n = 0 THEN 0 ELSE runs[n].invoked + Invocations(n - 1)

\* C6: a run requested (a handler called, and so withRun) while no input
\* reference is picked is rejected at once: the "No video" alert is raised,
\* busy stays none, the output list and the file system are unchanged, no
\* run task is started and so the engine is not invoked.
C6_NoInputRejected ==
  [][(lastOp'.op \in PressOps /\ inputUri = Null)
       => /\ alert' = AlertOf(<<"No video">>, <<"Please pick a video first.">>, <<>>)
          /\ busy = NullLabel /\ busy' = NullLabel
          /\ outputs' = outputs /\ runs' = runs
          /\ dirExists' = dirExists /\ inputUri' = inputUri
          /\ Invocations(MaxRuns) = 0]_vars

\* C6 witness: a handler was called with no input picked: the alert is up,
\* nothing was started and the directory, absent, was not made.
C6_Witness ==
  /\ lastOp.op = "pressNoVideo"
  /\ alert.title = <<"No video">>
  /\ inputUri = Null /\ busy = NullLabel /\ outputs = <<>>
  /\ Started = {} /\ ~dirExists

\* The steps in which withRun's catch block runs.
CatchOps == {"existsReject", "mkdirReject"}

\* C7: a step in which a run throws clears busy, shows the error's message
\* (the text of the thrown value when it has no message) and leaves the output
\* list as it was; a run that threw in ensureOutDir has no record and had no
\* engine invocation.
C7_ThrowExitsRunning ==
  /\ [](\A i \in RunIds : runs[i].pc = "threw" => (runs[i].invoked = 0 /\ runs[i].rec = <<>>))
  /\ [][lastOp'.op \in CatchOps
          => /\ busy' = NullLabel
             /\ alert'.title = <<runs[lastOp'.id].label, " error">>
             /\ alert'.log = <<>>
             /\ lastOp'.err.message # "" => alert'.msg = <<lastOp'.err.message>>
             /\ lastOp'.err.message = "" => alert'.msg = <<ToStr(lastOp'.err)>>
             /\ outputs' = outputs
             /\ runs'[lastOp'.id].pc = "threw"]_vars

\* C7 witness: mkdir failed for a run; busy is none and the error is shown.
C7_Witness ==
  /\ lastOp.op = "mkdirReject" /\ lastOp.err.message = "EACCES"
  /\ runs[lastOp.id].pc = "threw"
  /\ busy = NullLabel
  /\ alert.msg = <<"EACCES">>
  /\ ~dirExists

\* C8: a run whose directory and command steps succeeded has invoked the
\* engine exactly once, whatever the engine answered; no run invokes it twice;
\* a run that threw never invoked it; the invocations never outnumber the
\* accepted requests.
C8_InvokedOnce ==
  /\ \A i \in RunIds :
       /\ runs[i].invoked <= 1
       /\ runs[i].pc \in {"engine", "retcode", "logs", "resolved", "pending", "done"}
            => runs[i].invoked = 1
       /\ runs[i].pc \in {"none", "exists", "mkdir", "build", "submit", "threw"}
            => runs[i].invoked = 0
  /\ Invocations(MaxRuns) <= Cardinality(Started)

\* C8 witness: a run failed in the engine and is over, with one invocation.
C8_Witness ==
  /\ lastOp.op = "complete" /\ lastOp.arg = "failed"
  /\ runs[lastOp.id].pc = "done" /\ runs[lastOp.id].invoked = 1
  /\ Invocations(MaxRuns) = 1

\* C9: a pick that succeeds makes the picked uri the input reference, whether
\* or not a run is Running, and changes neither busy, the output list, the run
\* tasks nor the directory.
C9_PickReplacesInput ==
  [][lastOp'.op = "pickResolve"
       => /\ inputUri' = lastOp'.uri
          /\ busy' = busy /\ outputs' = outputs /\ runs' = runs
          /\ dirExists' = dirExists]_vars

\* C9 witness: a pick replaced the input reference while an engine invocation
\* started from the previous reference was in flight.
C9_Witness ==
  /\ lastOp.op = "pickResolve"
  /\ inputUri = lastOp.uri
  /\ \E i \in RunIds : InFlight(i) /\ busy = runs[i].label /\ runs[i].uri # inputUri

\* C10: a pick that is rejected changes no state; a cancel raises no alert,
\* any other error raises "Pick failed" with the error's message (the text of
\* the rejected value when it has no message).
C10_PickRejected ==
  [][lastOp'.op = "pickReject"
       => /\ inputUri' = inputUri /\ busy' = busy /\ outputs' = outputs /\ runs' = runs
          /\ (lastOp'.arg = "DOCUMENT_PICKER_CANCELED" => alert' = NoAlert)
          /\ (lastOp'.arg # "DOCUMENT_PICKER_CANCELED"
                => /\ alert'.title = <<"Pick failed">> /\ alert'.msg # <<>>
                   /\ lastOp'.err.message # "" => alert'.msg = <<lastOp'.err.message>>)]_vars

\* C10 witness: a pick was cancelled after an input had been picked and while
\* a run was Running; no alert was raised.
C10_Witness ==
  /\ lastOp.op = "pickReject" /\ lastOp.arg = "DOCUMENT_PICKER_CANCELED"
  /\ alert = NoAlert
  /\ inputUri # Null /\ busy # NullLabel

\* C11: every step leaves the output list as it was or puts exactly one new
\* record in front of it, the list before the step being the rest of the list
\* after it; the head of the list is the record of the run that built last.
C11_PrependOnly ==
  /\ [][outputs' = outputs \/ (outputs' # <<>> /\ Tail(outputs') = outputs)]_vars
  /\ [](outputs # <<>> => Head(outputs) = runs[KthLatestBuilt(1)].rec)

\* C11 witness: a second record was put in front of a first, different one.
C11_Witness ==
  /\ lastOp.op = "build"
  /\ Len(outputs) = 2 /\ outputs[1] # outputs[2]
  /\ outputs[1] = runs[lastOp.id].rec

\* sub occurs in s as a run of consecutive tokens.
Contains(s, sub) ==
  \E k \in 0..(Len(s) - Len(sub)) : SubSeq(s, k + 1, k + Len(sub)) = sub

\* The double quotes of s.
QuoteCount(s) == Cardinality({k \in 1..Len(s) : s[k] = Q})

\* C12: the string a builder returns holds the input reference and the output
\* path as given, and no double quote but the pair around each of them.
C12_OnlySurroundingQuotes ==
  h.fn # "none"
    => /\ Contains(h.cmd, h.uri)
       /\ Contains(h.cmd, h.out)
       /\ QuoteCount(h.cmd) = 4

\* The steps in which a direct call of ensureOutDir is answered a rejection.
EnsureRejectOps == {"ensureExistsReject", "ensureMkdirReject"}

\* C13: a call of ensureOutDir that has resolved leaves the directory there;
\* a call started after the previous one resolved (two calls in succession)
\* creates no directory; a call that finds the directory creates nothing and
\* resolves at once; and a call raises no error of its own: its promise
\* rejects only in a step in which RNFS.exists or RNFS.mkdir rejects.
C13_EnsureOutDirIdempotent ==
  /\ [](\A k \in 1..Len(h.calls) :
          /\ h.calls[k].pc = "resolved" => dirExists
          /\ (k >= 2 /\ h.calls[k].alone /\ h.calls[k - 1].pc = "resolved")
               => ~h.calls[k].made)
  /\ [][(lastOp'.op = "ensureExistsResolve" /\ dirExists)
          => /\ h'.calls[lastOp'.id].pc = "resolved"
             /\ ~h'.calls[lastOp'.id].made
             /\ dirExists']_vars
  /\ [][\A k \in 1..Len(h.calls) :
          (h.calls[k].pc # "rejected" /\ h'.calls[k].pc = "rejected")
            => (lastOp'.op \in EnsureRejectOps /\ lastOp'.id = k)]_vars

\* C13 witness: two calls in succession from an absent directory: the first
\* made it, the second made nothing, both resolved and the directory is there.
C13_Witness ==
  /\ Len(h.calls) >= 2
  /\ h.calls[1].pc = "resolved" /\ h.calls[1].made
  /\ h.calls[2].pc = "resolved" /\ h.calls[2].alone /\ ~h.calls[2].made
  /\ dirExists

Min(a, b) == IF a <= b THEN a ELSE b

\* p is a prefix of s, for run-length encoded texts in normal form (no empty
\* chunk, no two neighbouring chunks of the same character).
RECURSIVE IsPrefix(_, _)
IsPrefix(p, s) ==
  \/ p = <<>>
  \/ /\ s # <<>>
     /\ Head(p).c = Head(s).c
     /\ \/ Head(p).n = Head(s).n /\ IsPrefix(Tail(p), Tail(s))
        \/ Head(p).n < Head(s).n /\ Tail(p) = <<>>

\* C14: when runFFmpeg resolved with ok = false, the completion step clears
\* busy and raises the failed alert whose message is the first
\* min(2000, length) characters of the log.
C14_FailedMessageIsLogPrefix ==
  [][(lastOp'.op = "complete" /\ ~runs[lastOp'.id].r.ok)
       => /\ busy' = NullLabel
          /\ alert'.title = <<runs[lastOp'.id].label, " failed">>
          /\ alert'.msg = <<>>
          /\ TextLen(alert'.log) = Min(2000, TextLen(runs[lastOp'.id].r.logs))
          /\ IsPrefix(alert'.log, runs[lastOp'.id].r.logs)]_vars

\* C14 witness: a failed alert shows a message of exactly 2000 characters.
C14_Witness ==
  /\ lastOp.op = "complete" /\ lastOp.arg = "failed"
  /\ alert.title = <<Label("doEnhance"), " failed">>
  /\ TextLen(alert.log) = 2000
  /\ busy = NullLabel

\* C15: while an engine invocation is in flight the busy label is the label
\* of its run, so the preset buttons are disabled; hence busy is never none
\* (cleared by another run's completion or otherwise) during an invocation.
C15_BusyWhileInFlight ==
  \A i \in RunIds : InFlight(i) => (busy # NullLabel /\ busy = runs[i].label /\ Disabled)

\* C15 witness: a second run has its invocation in flight, after a first run
\* completed and cleared the label.
C15_Witness ==
  \E i \in RunIds :
    /\ runs[i].pc = "engine" /\ busy = runs[i].label
    /\ \E k \in 1..(i - 1) : runs[k].pc = "done"

\* The argument between the first pair of double quotes of a command, and
\* the one between the last pair.
InputOf(cmd) ==
  LET close == CHOOSE j \in 3..Len(cmd) :
                 cmd[j] = Q /\ \A k \in 3..(j - 1) : cmd[k] # Q
  IN SubSeq(cmd, 3, close - 1)
OutputOf(cmd) ==
  LET open == CHOOSE j \in 1..(Len(cmd) - 1) :
                cmd[j] = Q /\ \A k \in (j + 1)..(Len(cmd) - 1) : cmd[k] # Q
  IN SubSeq(cmd, open + 1, Len(cmd) - 1)

\* C16: a run keeps the input reference that was current at its request: the
\* accepted press records it, the command is built from it, and a pick that
\* succeeds meanwhile changes neither; the picked reference is the one a
\* later request records.
C16_CommandUsesRequestInput ==
  /\ [][lastOp'.op = "press" => runs'[lastOp'.id].uri = inputUri]_vars
  /\ [][lastOp'.op = "build"
          => InputOf(runs'[lastOp'.id].cmd) = runs[lastOp'.id].uri]_vars
  /\ [][lastOp'.op = "pickResolve"
          => \A i \in RunIds : runs'[i].uri = runs[i].uri /\ runs'[i].cmd = runs[i].cmd]_vars
  /\ [](\A i \in RunIds : runs[i].cmd # <<>> => InputOf(runs[i].cmd) = runs[i].uri)

\* C16 witness: a pick succeeded while the run was in ensureOutDir, and the
\* command, built afterwards, holds the reference of the request.
C16_Witness ==
  \E i \in RunIds :
    /\ runs[i].pc = "submit" /\ lastOp.op = "build"
    /\ InputOf(runs[i].cmd) = runs[i].uri
    /\ inputUri # runs[i].uri

\* The builder of each preset.
BuilderOf(p) == CASE p = "doSplit" -> "buildSplitCommand"
                  [] p = "doCrop" -> "buildCropSquareCommand"
                  [] p = "doBlur" -> "buildBlurCommand"
                  [] p = "doEnhance" -> "buildEnhanceCommand"

\* C17: the command of a run is what the builder of its preset returns for
\* its input and its destination, and the record of the run is that
\* destination (for Split: the pattern with "%03d" replaced by "001..").
C17_RecordMatchesCommand ==
  \A i \in RunIds :
    runs[i].cmd # <<>>
      => LET out == OutputOf(runs[i].cmd) IN
         /\ runs[i].cmd = ApplyBuilder(BuilderOf(runs[i].preset), InputOf(runs[i].cmd), out)
         /\ \A q \in Presets \ {runs[i].preset} :
              runs[i].cmd # ApplyBuilder(BuilderOf(q), InputOf(runs[i].cmd), out)
         /\ SubSeq(out, 1, Len(outDir) + 1) = outDir \o <<Prefix(runs[i].preset)>>
         /\ IF runs[i].preset = "doSplit"
            THEN /\ Contains(out, <<"%03d">>)
                 /\ runs[i].rec = replaceFirst(out, "%03d", "001..")
                 /\ runs[i].rec # out
            ELSE runs[i].rec = out
         /\ Contains(outputs, <<runs[i].rec>>)

\* C17 witness: a Split run whose invocation is in flight: the record is the
\* pattern of the command with the placeholder replaced.
C17_Witness ==
  \E i \in RunIds :
    /\ runs[i].pc = "engine" /\ runs[i].preset = "doSplit"
    /\ runs[i].rec = replaceFirst(OutputOf(runs[i].cmd), "%03d", "001..")
    /\ Head(outputs) = runs[i].rec

\* C18: a run sets busy when it starts; it builds its record and command only
\* once the directory is there; it invokes the engine after that, the
\* directory being there, the record listed and busy still set; it clears
\* busy and notifies in its last step, after its one invocation.
C18_StepOrder ==
  /\ [](\A i \in RunIds :
          /\ runs[i].pc \in {"build", "submit", "engine", "retcode", "logs", "resolved", "pending"}
               => (dirExists /\ busy = runs[i].label)
          /\ runs[i].pc \in {"exists", "mkdir"}
               => (busy = runs[i].label /\ runs[i].rec = <<>> /\ runs[i].invoked = 0)
          /\ runs[i].invoked > 0 => dirExists)
  /\ [][lastOp'.op = "press" => (busy' = runs'[lastOp'.id].label /\ runs'[lastOp'.id].pc = "exists")]_vars
  /\ [][lastOp'.op = "build" => (dirExists /\ runs[lastOp'.id].invoked = 0)]_vars
  /\ [][lastOp'.op = "submit"
          => /\ dirExists /\ busy = runs[lastOp'.id].label
             /\ runs[lastOp'.id].cmd # <<>> /\ Contains(outputs, <<runs[lastOp'.id].rec>>)
             /\ runs[lastOp'.id].invoked = 0]_vars
  /\ [][lastOp'.op = "complete"
          => /\ runs[lastOp'.id].invoked = 1
             /\ busy = runs[lastOp'.id].label /\ busy' = NullLabel
             /\ alert' # NoAlert]_vars

\* C18 witness: the engine was just invoked for a run; the directory is there,
\* busy is set and the record is listed.
C18_Witness ==
  /\ lastOp.op = "submit"
  /\ runs[lastOp.id].pc = "engine" /\ runs[lastOp.id].invoked = 1
  /\ dirExists /\ busy = runs[lastOp.id].label
  /\ Head(outputs) = runs[lastOp.id].rec
====
